---- MODULE Spec2Model ----
(***************************************************************************)
(* Model of script/graphql/build-changelog.js: the change classifier, the  *)
(* preview attributor (segmentPreviewChanges), the message and title       *)
(* formatters, the changelog entry builder (createChangelogEntry) and the  *)
(* caller that persists the entry (main).                                  *)
(*                                                                         *)
(* Strings are sequences of characters (one-character strings), so that    *)
(* endsWith, toLowerCase, the regular expressions, split and join are      *)
(* computed and not assumed.  A dotted path is a sequence of name atoms    *)
(* separated by the atom ".".                                              *)
(***************************************************************************)
EXTENDS Integers, Sequences, FiniteSets, Bags, TLC

VARIABLES
    pc,               \* position of the run
    changes,          \* the diff's change records (line 56)
    previews,         \* the preview definitions (line 27)
    changesToReport,  \* the classifier's output (line 57)
    pathToPreview,    \* the path-to-preview index (line 147)
    segmented,        \* { schemaChangesToReport, previewChangesToReport } (line 68)
    result,           \* what createChangelogEntry settles to
    changelog,        \* lib/graphql/static/changelog.json, parsed
    previousChangelog,\* the changelog before the run
    wrote,            \* whether main rewrote the changelog file
    title,            \* argument of cleanPreviewTitle
    cleanTitle,       \* cleanPreviewTitle(title)
    cleanTwice,       \* cleanPreviewTitle(cleanPreviewTitle(title))
    messages          \* result of cleanMessagesFromChanges(changes)

vars == << pc, changes, previews, changesToReport, pathToPreview, segmented,
           result, changelog, previousChangelog, wrote, title, cleanTitle,
           cleanTwice, messages >>

----------------------------------------------------------------------------
(* Bounds of the model *)

\* longest list of change records handed to createChangelogEntry
MaxChanges == 3
\* longest list of reportable changes handed to segmentPreviewChanges alone
MaxSegChanges == 2
\* longest list of preview definitions handed to segmentPreviewChanges alone
MaxPreviews == 2
\* longest toggled_on list of a preview definition
MaxToggled == 1
\* longest free prefix of a preview title
MaxTitleLen == 3
\* most characters in the messages of one list of changes
MaxMsgLen == 6

----------------------------------------------------------------------------
(* Characters *)

UpperCase == << "A","B","C","D","E","F","G","H","I","J","K","L","M",
                "N","O","P","Q","R","S","T","U","V","W","X","Y","Z" >>

LowerCase == << "a","b","c","d","e","f","g","h","i","j","k","l","m",
                "n","o","p","q","r","s","t","u","v","w","x","y","z" >>

Digits == << "0","1","2","3","4","5","6","7","8","9" >>

Range(s) == { s[i] : i \in 1..Len(s) }

\* all sequences over S of length at most n
RECURSIVE SeqsUpTo(_, _)
SeqsUpTo(S, n) ==
    IF n = 0 THEN { <<>> }
    ELSE LET shorter == SeqsUpTo(S, n - 1)
         IN  shorter \cup { Append(s, x) : s \in shorter, x \in S }

\* String.prototype.toLowerCase on one character
ToLowerChar(c) ==
    IF c \in Range(UpperCase)
    THEN LowerCase[CHOOSE i \in 1..Len(UpperCase) : UpperCase[i] = c]
    ELSE c

\* the regular expression class \w
IsWordChar(c) == c \in Range(UpperCase) \cup Range(LowerCase) \cup Range(Digits) \cup {"_"}

\* the regular expression class [a-zA-Z\. :!] of line 140
InNameClass(c) == c \in Range(UpperCase) \cup Range(LowerCase) \cup {".", " ", ":", "!"}

\* String.prototype.endsWith
EndsWith(s, suffix) ==
    /\ Len(s) >= Len(suffix)
    /\ SubSeq(s, Len(s) - Len(suffix) + 1, Len(s)) = suffix

\* the falsy value a missing property reads as; the empty string is falsy too
Undefined == <<>>

Truthy(v) == v # Undefined

----------------------------------------------------------------------------
(* The kinds of change, lines 183-239 *)

CHANGES_TO_REPORT ==
    << "FieldArgumentDefaultChanged", "FieldArgumentTypeChanged",
       "EnumValueRemoved", "EnumValueAdded", "FieldRemoved", "FieldAdded",
       "FieldTypeChanged", "FieldArgumentAdded", "FieldArgumentRemoved",
       "ObjectTypeInterfaceAdded", "ObjectTypeInterfaceRemoved",
       "InputFieldRemoved", "InputFieldAdded", "InputFieldDefaultValueChanged",
       "InputFieldTypeChanged", "TypeRemoved", "TypeAdded", "TypeKindChanged",
       "UnionMemberRemoved", "UnionMemberAdded", "SchemaQueryTypeChanged",
       "SchemaMutationTypeChanged", "SchemaSubscriptionTypeChanged" >>

CHANGES_TO_IGNORE ==
    << "FieldArgumentDescriptionChanged", "DirectiveRemoved", "DirectiveAdded",
       "DirectiveDescriptionChanged", "DirectiveLocationAdded",
       "DirectiveLocationRemoved", "DirectiveArgumentAdded",
       "DirectiveArgumentRemoved", "DirectiveArgumentDescriptionChanged",
       "DirectiveArgumentDefaultValueChanged", "DirectiveArgumentTypeChanged",
       "EnumValueDescriptionChanged", "EnumValueDeprecationReasonChanged",
       "EnumValueDeprecationReasonAdded", "EnumValueDeprecationReasonRemoved",
       "FieldDescriptionChanged", "FieldDescriptionAdded",
       "FieldDescriptionRemoved", "FieldDeprecationAdded",
       "FieldDeprecationRemoved", "FieldDeprecationReasonChanged",
       "FieldDeprecationReasonAdded", "FieldDeprecationReasonRemoved",
       "InputFieldDescriptionAdded", "InputFieldDescriptionRemoved",
       "InputFieldDescriptionChanged", "TypeDescriptionChanged",
       "TypeDescriptionRemoved", "TypeDescriptionAdded" >>

\* Array.prototype.includes
Includes(array, x) == \E i \in 1..Len(array) : array[i] = x

----------------------------------------------------------------------------
(* The classifier, lines 57-66 *)

NoError == <<>>

UnknownKindError(type) ==
    << "This change type should be added to CHANGES_TO_REPORT or CHANGES_TO_IGNORE: ", type >>

\* the forEach of lines 58-66 from record i on, acc being changesToReport so far
RECURSIVE ClassifyFrom(_, _, _)
ClassifyFrom(diffed, i, acc) ==
    IF i > Len(diffed)
    THEN [threw |-> FALSE, error |-> NoError, changesToReport |-> acc]
    ELSE IF Includes(CHANGES_TO_REPORT, diffed[i].type)
    THEN ClassifyFrom(diffed, i + 1, Append(acc, diffed[i]))
    ELSE IF Includes(CHANGES_TO_IGNORE, diffed[i].type)
    THEN ClassifyFrom(diffed, i + 1, acc)
    ELSE [threw |-> TRUE, error |-> UnknownKindError(diffed[i].type),
          changesToReport |-> acc]

\* mutant: a kind in neither list is skipped like an ignored one
RECURSIVE ClassifySkippingUnknown(_, _)
ClassifySkippingUnknown(diffed, i) ==
    IF i > Len(diffed) THEN <<>>
    ELSE IF Includes(CHANGES_TO_REPORT, diffed[i].type)
    THEN << diffed[i] >> \o ClassifySkippingUnknown(diffed, i + 1)
    ELSE ClassifySkippingUnknown(diffed, i + 1)

ClassifyIgnoringUnknown(diffed) ==
    [threw |-> FALSE, error |-> NoError,
     changesToReport |-> ClassifySkippingUnknown(diffed, 1)]

\* mutant: reportable records are collected newest first
RECURSIVE ReverseSeq(_)
ReverseSeq(s) == IF s = <<>> THEN <<>> ELSE Append(ReverseSeq(Tail(s)), Head(s))

ClassifyReversed(diffed) ==
    LET c == ClassifyFrom(diffed, 1, <<>>)
    IN  [c EXCEPT !.changesToReport = ReverseSeq(c.changesToReport)]

Classify(diffed) == ClassifyFrom(diffed, 1, <<>>)

----------------------------------------------------------------------------
(* Plain objects and dotted paths *)

\* the object {} : a function from keys to values
EmptyObject == <<>>

\* obj[key] = value
Put(obj, key, value) ==
    [k \in DOMAIN obj \cup {key} |-> IF k = key THEN value ELSE obj[k]]

\* obj[key], undefined when the object has no such property
Get(obj, key) == IF key \in DOMAIN obj THEN obj[key] ELSE Undefined

\* String.prototype.split(".")
RECURSIVE SplitDots(_)
SplitDots(s) ==
    IF \A i \in 1..Len(s) : s[i] # "."
    THEN << s >>
    ELSE LET dot == CHOOSE i \in 1..Len(s) :
                        s[i] = "." /\ \A h \in 1..(i - 1) : s[h] # "."
         IN  << SubSeq(s, 1, dot - 1) >> \o SplitDots(SubSeq(s, dot + 1, Len(s)))

\* Array.prototype.join(".")
RECURSIVE JoinDots(_)
JoinDots(parts) ==
    IF Len(parts) = 0 THEN <<>>
    ELSE IF Len(parts) = 1 THEN parts[1]
    ELSE parts[1] \o << "." >> \o JoinDots(Tail(parts))

----------------------------------------------------------------------------
(* The preview attributor, lines 144-181 *)

\* the inner forEach of lines 149-151 from toggled_on[j] on
RECURSIVE IndexToggledOn(_, _, _)
IndexToggledOn(index, preview, j) ==
    IF j > Len(preview.toggled_on) THEN index
    ELSE IndexToggledOn(Put(index, preview.toggled_on[j], preview.title), preview, j + 1)

\* the outer forEach of lines 148-152 from previewList[i] on
RECURSIVE IndexPreviews(_, _, _)
IndexPreviews(index, previewList, i) ==
    IF i > Len(previewList) THEN index
    ELSE IndexPreviews(IndexToggledOn(index, previewList[i], 1), previewList, i + 1)

\* mutant: a path already in the index keeps its first title
RECURSIVE IndexFirstWins(_, _, _)
IndexFirstWins(index, previewList, i) ==
    IF i > Len(previewList) THEN index
    ELSE LET p == previewList[i]
             keep == { j \in 1..Len(p.toggled_on) : p.toggled_on[j] \notin DOMAIN index }
             added == [k \in DOMAIN index \cup { p.toggled_on[j] : j \in keep } |->
                          IF k \in DOMAIN index THEN index[k] ELSE p.title]
         IN  IndexFirstWins(added, previewList, i + 1)

BuildPathToPreviewFirstWins(previewList) == IndexFirstWins(EmptyObject, previewList, 1)

\* lines 147-152
BuildPathToPreview(previewList) == IndexPreviews(EmptyObject, previewList, 1)

\* the while loop of lines 163-169: the title found for pathParts or an ancestor
RECURSIVE WalkAncestors(_, _)
WalkAncestors(pathParts, index) ==
    IF Len(pathParts) = 0 THEN Undefined
    ELSE LET testPath == JoinDots(pathParts)
             previewTitle == Get(index, testPath)
         IN  IF Truthy(previewTitle) THEN previewTitle
             ELSE WalkAncestors(SubSeq(pathParts, 1, Len(pathParts) - 1), index)

\* mutant: the walk starts at the root and takes the least specific prefix
RECURSIVE WalkFromRoot(_, _, _)
WalkFromRoot(pathParts, index, n) ==
    IF n > Len(pathParts) THEN Undefined
    ELSE LET previewTitle == Get(index, JoinDots(SubSeq(pathParts, 1, n)))
         IN  IF Truthy(previewTitle) THEN previewTitle
             ELSE WalkFromRoot(pathParts, index, n + 1)

FindPreviewTitleLeastSpecific(path, index) == WalkFromRoot(SplitDots(path), index, 1)

\* lines 159-169
FindPreviewTitle(path, index) == WalkAncestors(SplitDots(path), index)

\* changesByPreview is an object keyed by title; its keys keep insertion
\* order, so it is a sequence of { title, changes } with distinct titles
BucketOf(buckets, previewTitle) ==
    IF \E i \in 1..Len(buckets) : buckets[i].title = previewTitle
    THEN CHOOSE i \in 1..Len(buckets) : buckets[i].title = previewTitle
    ELSE 0

\* mutant: every attributed change opens a bucket of its own
PushToNewBucket(buckets, previewTitle, change) ==
    Append(buckets, [title |-> previewTitle, changes |-> << change >>])

\* lines 171-175
PushToBucket(buckets, previewTitle, change) ==
    LET i == BucketOf(buckets, previewTitle)
    IN  IF i = 0
        THEN Append(buckets, [title |-> previewTitle, changes |-> << change >>])
        ELSE [buckets EXCEPT ![i].changes = Append(@, change)]

\* mutant: an attributed change is also kept in the general bucket
SegmentOneIntoBoth(seg, change, index) ==
    LET previewTitle == FindPreviewTitle(change.path, index)
    IN  IF Truthy(previewTitle)
        THEN [schemaChangesToReport |-> Append(seg.schemaChangesToReport, change),
              previewChangesToReport |->
                  PushToBucket(seg.previewChangesToReport, previewTitle, change)]
        ELSE [seg EXCEPT !.schemaChangesToReport = Append(@, change)]

\* the body of the forEach of lines 156-179 for one change
SegmentOne(seg, change, index) ==
    LET previewTitle == FindPreviewTitle(change.path, index)
    IN  IF Truthy(previewTitle)
        THEN [seg EXCEPT !.previewChangesToReport =
                             PushToBucket(@, previewTitle, change)]
        ELSE [seg EXCEPT !.schemaChangesToReport = Append(@, change)]

\* the forEach of lines 156-179 from reportable[i] on
RECURSIVE SegmentFrom(_, _, _, _)
SegmentFrom(seg, reportable, index, i) ==
    IF i > Len(reportable) THEN seg
    ELSE SegmentFrom(SegmentOne(seg, reportable[i], index), reportable, index, i + 1)

\* lines 144-181
segmentPreviewChanges(reportable, previewList) ==
    SegmentFrom([schemaChangesToReport |-> <<>>, previewChangesToReport |-> <<>>],
                reportable, BuildPathToPreview(previewList), 1)

----------------------------------------------------------------------------
(* The formatters, lines 113-142 *)

UpdateRefsPreview ==
    << "U","p","d","a","t","e","R","e","f","s","P","r","e","v","i","e","w" >>

UpdateRefsClean ==
    << "U","p","d","a","t","e"," ","r","e","f","s"," ","p","r","e","v","i","e","w" >>

MergeInfoPreview ==
    << "M","e","r","g","e","I","n","f","o","P","r","e","v","i","e","w" >>

MergeInfoClean ==
    << "M","e","r","g","e"," ","i","n","f","o"," ","p","r","e","v","i","e","w" >>

PreviewWord == << "p","r","e","v","i","e","w" >>

\* mutant: the suffix test ignores case
cleanPreviewTitleAnyCase(t) ==
    IF t = UpdateRefsPreview THEN UpdateRefsClean
    ELSE IF t = MergeInfoPreview THEN MergeInfoClean
    ELSE IF ~EndsWith([i \in 1..Len(t) |-> ToLowerChar(t[i])], PreviewWord)
    THEN t \o << " " >> \o PreviewWord
    ELSE t

\* lines 113-122
cleanPreviewTitle(t) ==
    IF t = UpdateRefsPreview THEN UpdateRefsClean
    ELSE IF t = MergeInfoPreview THEN MergeInfoClean
    ELSE IF ~EndsWith(t, PreviewWord) THEN t \o << " " >> \o PreviewWord
    ELSE t

\* lines 128-134: lower-case, spaces to hyphens, then drop all but \w and "-"
previewAnchor(previewTitle) ==
    LET lowered == [i \in 1..Len(previewTitle) |-> ToLowerChar(previewTitle[i])]
        hyphened == [i \in 1..Len(lowered) |->
                        IF lowered[i] = " " THEN "-" ELSE lowered[i]]
        Kept(c) == IsWordChar(c) \/ c = "-"
    IN  SelectSeq(hyphened, Kept)

\* the single quote
Quote == "'"

\* the backtick, a character a string literal of this module cannot hold
Backtick == "BACKTICK"

\* the first index from i on whose character is outside [a-zA-Z\. :!]
RECURSIVE NameRunEnd(_, _)
NameRunEnd(s, i) ==
    IF i > Len(s) \/ ~InNameClass(s[i]) THEN i ELSE NameRunEnd(s, i + 1)

\* String.prototype.replace with the global regular expression of line 140
\* from index i on: the leftmost match gets its quotes replaced and the scan
\* goes on behind it
RECURSIVE ReplaceQuotedFrom(_, _)
ReplaceQuotedFrom(s, i) ==
    IF i > Len(s) THEN <<>>
    ELSE LET j == NameRunEnd(s, i + 1)
         IN  IF s[i] = Quote /\ j > i + 1 /\ j <= Len(s) /\ s[j] = Quote
             THEN << Backtick >> \o SubSeq(s, i + 1, j - 1) \o << Backtick >>
                      \o ReplaceQuotedFrom(s, j + 1)
             ELSE << s[i] >> \o ReplaceQuotedFrom(s, i + 1)

\* mutant: the regular expression without its g flag, only the first match
RECURSIVE ReplaceFirstQuotedFrom(_, _)
ReplaceFirstQuotedFrom(s, i) ==
    IF i > Len(s) THEN <<>>
    ELSE LET j == NameRunEnd(s, i + 1)
         IN  IF s[i] = Quote /\ j > i + 1 /\ j <= Len(s) /\ s[j] = Quote
             THEN << Backtick >> \o SubSeq(s, i + 1, j - 1) \o << Backtick >>
                      \o SubSeq(s, j + 1, Len(s))
             ELSE << s[i] >> \o ReplaceFirstQuotedFrom(s, i + 1)

CleanMessageFirstOnly(message) == ReplaceFirstQuotedFrom(message, 1)

\* line 140
CleanMessage(message) == ReplaceQuotedFrom(message, 1)

\* lines 136-142
cleanMessagesFromChanges(changeList) ==
    [i \in 1..Len(changeList) |-> CleanMessage(changeList[i].message)]

----------------------------------------------------------------------------
(* The entry builder, lines 50-109 *)

SchemaTitle == << "The GraphQL schema includes these changes:" >>

\* line 87
EntryTitle(clean) ==
    << "The [" >> \o clean \o << "](/graphql/overview/schema-previews#" >>
        \o previewAnchor(clean) \o << ") includes these changes:" >>

NoEntry == <<>>

Pending == [kind |-> "pending", entry |-> NoEntry, error |-> NoError]

LengthKey == << "l","e","n","g","t","h" >>

\* previewChangesToReport.length > 0 of line 70. previewChangesToReport is the
\* plain object of line 154, not an array: its length property is undefined, or
\* the bucket of a preview titled "length"; neither compares greater than 0
ObjectLengthPositive(buckets) ==
    IF BucketOf(buckets, LengthKey) = 0
    THEN FALSE    \* undefined > 0
    ELSE FALSE    \* an object > 0

\* the for..in loop of lines 84-92
PreviewSections(buckets) ==
    [i \in 1..Len(buckets) |->
        [title |-> EntryTitle(cleanPreviewTitle(buckets[i].title)),
         changes |-> cleanMessagesFromChanges(buckets[i].changes)]]

\* mutant: the sections are pushed newest first
BuildEntrySectionsReversed(seg) ==
    IF Len(seg.schemaChangesToReport) > 0
           \/ ObjectLengthPositive(seg.previewChangesToReport)
    THEN [kind |-> "entry", error |-> NoError,
          entry |-> [schemaChanges |->
                         << [title |-> SchemaTitle,
                             changes |-> cleanMessagesFromChanges(seg.schemaChangesToReport)] >>,
                     previewChanges |-> ReverseSeq(PreviewSections(seg.previewChangesToReport)),
                     upcomingChanges |-> <<>>]]
    ELSE [kind |-> "null", error |-> NoError, entry |-> NoEntry]

\* lines 70-108
BuildEntry(seg) ==
    IF Len(seg.schemaChangesToReport) > 0
           \/ ObjectLengthPositive(seg.previewChangesToReport)
    THEN [kind |-> "entry", error |-> NoError,
          entry |-> [schemaChanges |->
                         << [title |-> SchemaTitle,
                             changes |-> cleanMessagesFromChanges(seg.schemaChangesToReport)] >>,
                     previewChanges |-> PreviewSections(seg.previewChangesToReport),
                     upcomingChanges |-> <<>>]]
    ELSE [kind |-> "null", error |-> NoError, entry |-> NoEntry]

\* line 64
Thrown(error) == [kind |-> "throw", error |-> error, entry |-> NoEntry]

\* lines 50-109, from the diff on: what the returned promise settles to
createChangelogEntry(diffed, previewList) ==
    LET classified == Classify(diffed)
    IN  IF classified.threw
        THEN Thrown(classified.error)
        ELSE BuildEntry(segmentPreviewChanges(classified.changesToReport, previewList))

----------------------------------------------------------------------------
(* The caller, lines 15-44 *)

\* String(n) for a natural number
RECURSIVE NumberString(_)
NumberString(n) ==
    IF n < 10 THEN << Digits[n + 1] >>
    ELSE Append(NumberString(n \div 10), Digits[(n % 10) + 1])

\* String.prototype.padStart(2, '0')
PadStart2(s) == IF Len(s) >= 2 THEN s ELSE IF Len(s) = 1 THEN << "0" >> \o s ELSE << "0", "0" >>

\* line 34; month is Date.prototype.getMonth(), 0 for January
TodayString(today) ==
    NumberString(today.year) \o << "-" >> \o PadStart2(NumberString(today.month + 1))
        \o << "-" >> \o PadStart2(NumberString(today.date))

\* line 29: createChangelogEntry is an async function and is called without
\* await, so changelogEntry is its promise, an object with no own property
PromiseOf(call) == [kind |-> "promise", date |-> Undefined]

\* the test of line 30: null is falsy, every object is truthy
IsTruthyValue(v) == v.kind # "null"

\* JSON.stringify then JSON.parse of the stamped changelogEntry: the own
\* enumerable properties; a promise has none but the date set at line 35
AsJson(v) ==
    IF v.kind = "promise" THEN [date |-> v.date]
    ELSE [schemaChanges |-> v.entry.schemaChanges,
          previewChanges |-> v.entry.previewChanges,
          upcomingChanges |-> v.entry.upcomingChanges,
          date |-> v.date]

----------------------------------------------------------------------------
(* Inputs *)

Query == << "Query" >>
QueryFoo == << "Query", ".", "foo" >>
QueryFooBar == << "Query", ".", "foo", ".", "bar" >>
QueryOther == << "Query", ".", "other" >>

\* paths of the change records
ChangePaths == { QueryFooBar, QueryFoo, QueryOther }

\* paths a preview lists in toggled_on
ToggledPaths == { Query, QueryFoo }

\* one reportable kind, one ignored kind, one kind in neither list
ChangeKinds == { "FieldAdded", "FieldDescriptionChanged", "DirectiveUsageFieldAdded" }

\* the diff's message of a change: a quoted name, a name the clean-up keeps
\* quoted, and a message without a quote
MessageAt(path) ==
    IF path = QueryFooBar THEN << Quote, "b", "a", "r", Quote, " ", "a", "d", "d", "e", "d" >>
    ELSE IF path = QueryOther THEN << Quote, "o", "_", "1", Quote >>
    ELSE << "F", "o", "o", "!" >>

ChangeRecords ==
    { [type |-> k, path |-> p, message |-> MessageAt(p)] : k \in ChangeKinds, p \in ChangePaths }

ReportableRecords == { c \in ChangeRecords : Includes(CHANGES_TO_REPORT, c.type) }

FooPreview == << "F","o","o","P","r","e","v","i","e","w" >>
BarPreview == << "B","a","r"," ","p","r","e","v","i","e","w" >>

Preview(t, paths) == [title |-> t, toggled_on |-> paths]

\* preview definition lists handed to createChangelogEntry
PreviewConfigs ==
    { <<>>,
      << Preview(FooPreview, << QueryFoo >>) >>,
      << Preview(BarPreview, << Query >>) >>,
      << Preview(UpdateRefsPreview, << QueryOther >>), Preview(FooPreview, << QueryFooBar >>) >>,
      << Preview(MergeInfoPreview, << Query, QueryOther >>), Preview(BarPreview, << QueryOther >>) >> }

\* preview definitions handed to segmentPreviewChanges alone
PreviewDefs ==
    { Preview(t, paths) : t \in { FooPreview, BarPreview },
                          paths \in SeqsUpTo(ToggledPaths, MaxToggled) }

\* preview titles: a free prefix followed by one of the tails the code tells apart
TitleTails ==
    { <<>>, PreviewWord, << " " >> \o PreviewWord,
      << "P","r","e","v","i","e","w" >>, << "p","r","e","v","i","e" >>,
      UpdateRefsPreview, MergeInfoPreview, UpdateRefsClean }

TitleInputs ==
    { prefix \o tail : prefix \in SeqsUpTo({ "F", "o", " " }, MaxTitleLen), tail \in TitleTails }

\* messages: every string over a quote, a letter, a colon and an underscore
MessageInputs == SeqsUpTo({ Quote, "a", ":", "_" }, MaxMsgLen)

MessageChange(m) == [type |-> "FieldAdded", path |-> Query, message |-> m]

\* lists of changes whose messages hold at most MaxMsgLen characters together
MessageChangeLists ==
    { <<>> } \cup { << MessageChange(m) >> : m \in MessageInputs }
        \cup { << MessageChange(SubSeq(cut[1], 1, cut[2])),
                   MessageChange(SubSeq(cut[1], cut[2] + 1, Len(cut[1]))) >> :
                   cut \in { c \in MessageInputs \X (0..MaxMsgLen) : c[2] <= Len(c[1]) } }

\* new Date() of line 33
Todays ==
    { [year |-> 2026, month |-> 10, date |-> 4], [year |-> 2020, month |-> 0, date |-> 31] }

OldEntry(d) ==
    [schemaChanges |-> << [title |-> SchemaTitle, changes |-> << << "x" >> >>] >>,
     previewChanges |-> <<>>, upcomingChanges |-> <<>>, date |-> d]

\* contents of lib/graphql/static/changelog.json before the run
PriorChangelogs ==
    { <<>>,
      << OldEntry(<< "2","0","2","0","-","0","1","-","0","2" >>) >> }

----------------------------------------------------------------------------
(* The state machine *)

EmptySegments == [schemaChangesToReport |-> <<>>, previewChangesToReport |-> <<>>]

\* nothing computed, nothing written yet
Idle ==
    /\ pathToPreview = EmptyObject
    /\ segmented = EmptySegments
    /\ result = Pending
    /\ wrote = FALSE
    /\ cleanTitle = <<>>
    /\ cleanTwice = <<>>
    /\ messages = <<>>

\* createChangelogEntry is called with a diff and the preview definitions
Init ==
    /\ pc = "diffed"
    /\ changes \in SeqsUpTo(ChangeRecords, MaxChanges)
    /\ previews \in PreviewConfigs
    /\ changesToReport = <<>>
    /\ title = <<>>
    /\ changelog = <<>>
    /\ previousChangelog = <<>>
    /\ Idle

\* lines 57-66
ClassifyStep ==
    /\ pc = "diffed"
    /\ LET classified == Classify(changes)
       IN  IF classified.threw
           THEN /\ pc' = "threw"
                /\ result' = Thrown(classified.error)
                /\ UNCHANGED changesToReport
           ELSE /\ pc' = "classified"
                /\ changesToReport' = classified.changesToReport
                /\ UNCHANGED result
    /\ UNCHANGED << changes, previews, pathToPreview, segmented, changelog,
                    previousChangelog, wrote, title, cleanTitle, cleanTwice, messages >>

\* line 68
SegmentStep ==
    /\ pc = "classified"
    /\ pc' = "segmented"
    /\ pathToPreview' = BuildPathToPreview(previews)
    /\ segmented' = segmentPreviewChanges(changesToReport, previews)
    /\ UNCHANGED << changes, previews, changesToReport, result, changelog,
                    previousChangelog, wrote, title, cleanTitle, cleanTwice, messages >>

\* lines 70-108
BuildStep ==
    /\ pc = "segmented"
    /\ pc' = "returned"
    /\ result' = BuildEntry(segmented)
    /\ UNCHANGED << changes, previews, changesToReport, pathToPreview, segmented,
                    changelog, previousChangelog, wrote, title, cleanTitle,
                    cleanTwice, messages >>

Next == ClassifyStep \/ SegmentStep \/ BuildStep

Spec == Init /\ [][Next]_vars

\* segmentPreviewChanges is called with reportable changes and preview definitions
InitSegment ==
    /\ pc = "classified"
    /\ changes = <<>>
    /\ previews \in SeqsUpTo(PreviewDefs, MaxPreviews)
    /\ changelog = <<>>
    /\ previousChangelog = <<>>
    /\ changesToReport \in SeqsUpTo(ReportableRecords, MaxSegChanges)
    /\ title = <<>>
    /\ Idle

NextSegment == SegmentStep

SpecSegment == InitSegment /\ [][NextSegment]_vars

\* cleanPreviewTitle is called with a title
InitTitle ==
    /\ pc = "title"
    /\ changes = <<>>
    /\ previews = <<>>
    /\ changelog = <<>>
    /\ previousChangelog = <<>>
    /\ changesToReport = <<>>
    /\ title \in TitleInputs
    /\ Idle

\* lines 113-122
CleanTitle ==
    /\ pc = "title"
    /\ pc' = "cleaned"
    /\ cleanTitle' = cleanPreviewTitle(title)
    /\ UNCHANGED << changes, previews, changesToReport, pathToPreview, segmented,
                    result, changelog, previousChangelog, wrote, title, cleanTwice,
                    messages >>

\* lines 113-122, on the title already cleaned
CleanTitleAgain ==
    /\ pc = "cleaned"
    /\ pc' = "cleanedTwice"
    /\ cleanTwice' = cleanPreviewTitle(cleanTitle)
    /\ UNCHANGED << changes, previews, changesToReport, pathToPreview, segmented,
                    result, changelog, previousChangelog, wrote, title, cleanTitle,
                    messages >>

NextTitle == CleanTitle \/ CleanTitleAgain

SpecTitle == InitTitle /\ [][NextTitle]_vars

\* cleanMessagesFromChanges is called with a list of changes
InitMessages ==
    /\ pc = "messages"
    /\ changes \in MessageChangeLists
    /\ previews = <<>>
    /\ changesToReport = <<>>
    /\ title = <<>>
    /\ changelog = <<>>
    /\ previousChangelog = <<>>
    /\ Idle

\* lines 136-142
CleanMessages ==
    /\ pc = "messages"
    /\ pc' = "cleanedMessages"
    /\ messages' = cleanMessagesFromChanges(changes)
    /\ UNCHANGED << changes, previews, changesToReport, pathToPreview, segmented,
                    result, changelog, previousChangelog, wrote, title, cleanTitle,
                    cleanTwice >>

NextMessages == CleanMessages

SpecMessages == InitMessages /\ [][NextMessages]_vars

\* main is run on a diff, the preview definitions and the changelog file
InitMain ==
    /\ pc = "main"
    /\ changes \in SeqsUpTo(ChangeRecords, MaxChanges)
    /\ previews \in PreviewConfigs
    /\ changesToReport = <<>>
    /\ title = <<>>
    /\ changelog \in PriorChangelogs
    /\ previousChangelog = changelog
    /\ Idle

\* lines 29-43: the call of line 29 hands back the promise of createChangelogEntry,
\* which is still pending while lines 30-42 run
MainRun ==
    /\ pc = "main"
    /\ pc' = "pendingEntry"
    /\ \E today \in Todays :
         LET changelogEntry == PromiseOf(createChangelogEntry(changes, previews))
         IN  IF IsTruthyValue(changelogEntry)
             THEN LET stamped == [changelogEntry EXCEPT !.date = TodayString(today)]
                  IN  /\ changelog' = << AsJson(stamped) >> \o changelog
                      /\ wrote' = TRUE
             ELSE UNCHANGED << changelog, wrote >>
    /\ UNCHANGED << changes, previews, changesToReport, pathToPreview, segmented,
                    result, previousChangelog, title, cleanTitle, cleanTwice, messages >>

\* the promise of line 29 settles: the builder's result for the run
SettleEntry ==
    /\ pc = "pendingEntry"
    /\ pc' = "settled"
    /\ result' = createChangelogEntry(changes, previews)
    /\ UNCHANGED << changes, previews, changesToReport, pathToPreview, segmented,
                    changelog, previousChangelog, wrote, title, cleanTitle,
                    cleanTwice, messages >>

NextMain == MainRun \/ SettleEntry

SpecMain == InitMain /\ [][NextMain]_vars

----------------------------------------------------------------------------
(* Notions the properties are stated with *)

IsReportable(c) == c.type \in Range(CHANGES_TO_REPORT)

IsIgnored(c) == c.type \in Range(CHANGES_TO_IGNORE)

IsUnknown(c) == ~IsReportable(c) /\ ~IsIgnored(c)

\* how often x occurs in the sequence s
Count(s, x) == Cardinality({ i \in 1..Len(s) : s[i] = x })

\* the changes of all preview buckets, one bucket after the other
RECURSIVE AllBucketChanges(_)
AllBucketChanges(buckets) ==
    IF buckets = <<>> THEN <<>>
    ELSE Head(buckets).changes \o AllBucketChanges(Tail(buckets))

\* p is the path itself or one of its dotted ancestors
IsDottedPrefix(p, path) ==
    /\ Len(p) > 0
    /\ Len(p) <= Len(path)
    /\ SubSeq(path, 1, Len(p)) = p
    /\ Len(p) < Len(path) => path[Len(p) + 1] = "."

\* the keys of the index that cover the path
CoveringKeys(path, keys) == { p \in keys : IsDottedPrefix(p, path) }

\* the most specific covering key; only used when there is one
LongestCoveringKey(path, keys) ==
    CHOOSE p \in CoveringKeys(path, keys) :
        \A q \in CoveringKeys(path, keys) : Len(q) <= Len(p)

\* the paths some preview definition lists
ListedPaths(previewList) ==
    UNION { Range(previewList[i].toggled_on) : i \in 1..Len(previewList) }

Lists(preview, p) == p \in Range(preview.toggled_on)

\* the last definition that lists p
LastLister(previewList, p) ==
    CHOOSE i \in 1..Len(previewList) :
        /\ Lists(previewList[i], p)
        /\ \A h \in (i + 1)..Len(previewList) : ~Lists(previewList[h], p)

\* the preview a change at the path is due to, Undefined when none covers it
DuePreview(path, previewList) ==
    IF CoveringKeys(path, ListedPaths(previewList)) = {} THEN Undefined
    ELSE previewList[LastLister(previewList,
                                LongestCoveringKey(path, ListedPaths(previewList)))].title

InBucket(buckets, t, c) ==
    \E i \in 1..Len(buckets) : buckets[i].title = t /\ c \in Range(buckets[i].changes)

InSomeBucket(buckets, c) ==
    \E i \in 1..Len(buckets) : c \in Range(buckets[i].changes)

----------------------------------------------------------------------------
(* Properties *)

\* C1: createChangelogEntry returns an entry whenever the general bucket or a
\* preview bucket holds a reportable change, and null only when both are empty.
\* The code returns null when every reportable change went to a preview.
C1_EntryIffAnyBucketFilled ==
    pc = "returned" =>
        LET any == \/ Len(segmented.schemaChangesToReport) > 0
                   \/ Len(AllBucketChanges(segmented.previewChangesToReport)) > 0
        IN  /\ any => result.kind = "entry"
            /\ ~any => result.kind = "null"

\* C3: a change whose kind is in neither list makes createChangelogEntry fail
\* with the unknown-kind error, wherever the change sits: the run never gets
\* past the classifier and settles to neither an entry nor null.
C3_UnknownKindThrows ==
    (\E i \in 1..Len(changes) : IsUnknown(changes[i])) =>
        /\ pc \in { "diffed", "threw" }
        /\ result.kind \in { "pending", "throw" }
        /\ pc = "threw" =>
               /\ result.kind = "throw"
               /\ result.entry = NoEntry
               /\ \E i \in 1..Len(changes) :
                      /\ IsUnknown(changes[i])
                      /\ result.error[2] = changes[i].type

C3_Witness ==
    /\ pc = "threw"
    /\ Len(changes) = 3
    /\ IsReportable(changes[1])
    /\ IsUnknown(changes[2])
    /\ IsReportable(changes[3])

\* C4: when every kind is in one of the two lists, changesToReport is exactly
\* the records of a reportable kind, in their order and unmodified, and holds
\* no record of an ignored kind.
C4_ReportableSubsequence ==
    ((\A i \in 1..Len(changes) : ~IsUnknown(changes[i])) /\ pc # "diffed") =>
        /\ pc # "threw"
        /\ changesToReport = SelectSeq(changes, IsReportable)
        /\ \A i \in 1..Len(changesToReport) : ~IsIgnored(changesToReport[i])

C4_Witness ==
    /\ pc = "classified"
    /\ Len(changes) = 3
    /\ IsReportable(changes[1])
    /\ IsIgnored(changes[2])
    /\ IsReportable(changes[3])
    /\ changes[1].path # changes[3].path
    /\ changesToReport = << changes[1], changes[3] >>

\* C5: each change goes to the preview the index maps its longest indexed
\* dotted prefix to (the path itself included) and to no other bucket, and to
\* the general bucket alone when no prefix is indexed. With toggled_on
\* ["Query.foo"] a change at Query.foo.bar goes to that preview and one at
\* Query.other does not; with Query and Query.foo indexed, Query.foo wins.
C5_LongestPrefixAttribution ==
    pc = "segmented" =>
        LET keys == DOMAIN pathToPreview
            schema == segmented.schemaChangesToReport
            buckets == segmented.previewChangesToReport
        IN  /\ \A k \in 1..Len(changesToReport) :
                   LET c == changesToReport[k]
                   IN  IF CoveringKeys(c.path, keys) = {}
                       THEN /\ c \in Range(schema)
                            /\ ~InSomeBucket(buckets, c)
                       ELSE LET t == pathToPreview[LongestCoveringKey(c.path, keys)]
                            IN  /\ c \notin Range(schema)
                                /\ \A i \in 1..Len(buckets) :
                                       c \in Range(buckets[i].changes) <=> buckets[i].title = t
                                /\ InBucket(buckets, t, c)
            /\ (Len(previews) = 1 /\ previews[1].toggled_on = << QueryFoo >>) =>
                   \A k \in 1..Len(changesToReport) :
                       LET c == changesToReport[k]
                       IN  /\ c.path = QueryFooBar => InBucket(buckets, previews[1].title, c)
                           /\ c.path = QueryOther =>
                                  c \in Range(schema) /\ ~InSomeBucket(buckets, c)
            /\ (/\ Len(previews) = 2
                /\ previews[1].toggled_on = << Query >>
                /\ previews[2].toggled_on = << QueryFoo >>
                /\ previews[1].title # previews[2].title) =>
                   \A k \in 1..Len(changesToReport) :
                       LET c == changesToReport[k]
                       IN  c.path = QueryFooBar =>
                               /\ InBucket(buckets, previews[2].title, c)
                               /\ ~InBucket(buckets, previews[1].title, c)

C5_Witness ==
    /\ pc = "segmented"
    /\ Len(previews) = 2
    /\ previews[1].toggled_on = << Query >>
    /\ previews[2].toggled_on = << QueryFoo >>
    /\ previews[1].title # previews[2].title
    /\ Len(changesToReport) = 2
    /\ changesToReport[1].path = QueryFooBar
    /\ changesToReport[2].path = QueryOther
    /\ InBucket(segmented.previewChangesToReport, previews[2].title, changesToReport[1])
    /\ InBucket(segmented.previewChangesToReport, previews[1].title, changesToReport[2])

\* C6: a path listed by several preview definitions is indexed under the title
\* of the last definition that lists it; a change whose most specific indexed
\* prefix is that path goes to that definition and never to an earlier one.
C6_LastDefinitionWins ==
    pc = "segmented" =>
        LET buckets == segmented.previewChangesToReport
        IN  /\ DOMAIN pathToPreview = ListedPaths(previews)
            /\ \A p \in ListedPaths(previews) :
                   LET last == LastLister(previews, p)
                   IN  /\ pathToPreview[p] = previews[last].title
                       /\ \A k \in 1..Len(changesToReport) :
                              LET c == changesToReport[k]
                              IN  (/\ CoveringKeys(c.path, ListedPaths(previews)) # {}
                                   /\ LongestCoveringKey(c.path, ListedPaths(previews)) = p) =>
                                      /\ InBucket(buckets, previews[last].title, c)
                                      /\ \A e \in 1..(last - 1) :
                                             (/\ Lists(previews[e], p)
                                              /\ previews[e].title # previews[last].title) =>
                                                 ~InBucket(buckets, previews[e].title, c)

C6_Witness ==
    /\ pc = "segmented"
    /\ Len(previews) = 2
    /\ previews[1].toggled_on = << QueryFoo >>
    /\ previews[2].toggled_on = << QueryFoo >>
    /\ previews[1].title # previews[2].title
    /\ \E k \in 1..Len(changesToReport) :
           /\ changesToReport[k].path = QueryFooBar
           /\ InBucket(segmented.previewChangesToReport, previews[2].title, changesToReport[k])

\* C7: the general bucket and the preview buckets together hold every input
\* change exactly as often as the input does, and nothing else.
C7_BucketsPartitionInput ==
    pc = "segmented" =>
        LET all == segmented.schemaChangesToReport
                       \o AllBucketChanges(segmented.previewChangesToReport)
        IN  /\ Len(all) = Len(changesToReport)
            /\ \A c \in Range(all) \cup Range(changesToReport) :
                   Count(all, c) = Count(changesToReport, c)

C7_Witness ==
    /\ pc = "segmented"
    /\ Len(changesToReport) = 2
    /\ Len(segmented.schemaChangesToReport) = 1
    /\ Len(segmented.previewChangesToReport) = 1

\* C8: cleanPreviewTitle renames UpdateRefsPreview and MergeInfoPreview, appends
\* " preview" to every other title that does not end in lower-case "preview"
\* (FooPreview becomes "FooPreview preview") and returns the rest unchanged; the
\* result ends in "preview", and cleaning it again changes nothing.
C8_CleanPreviewTitle ==
    /\ pc \in { "cleaned", "cleanedTwice" } =>
           LET n == Len(title)
               endsInPreview ==
                   /\ n >= 7
                   /\ << title[n - 6], title[n - 5], title[n - 4], title[n - 3],
                         title[n - 2], title[n - 1], title[n] >> = PreviewWord
               m == Len(cleanTitle)
           IN  /\ title = UpdateRefsPreview => cleanTitle = UpdateRefsClean
               /\ title = MergeInfoPreview => cleanTitle = MergeInfoClean
               /\ title = FooPreview =>
                      cleanTitle = << "F","o","o","P","r","e","v","i","e","w",
                                      " ","p","r","e","v","i","e","w" >>
               /\ (title \notin { UpdateRefsPreview, MergeInfoPreview } /\ ~endsInPreview) =>
                      cleanTitle = title \o << " ","p","r","e","v","i","e","w" >>
               /\ (title \notin { UpdateRefsPreview, MergeInfoPreview } /\ endsInPreview) =>
                      cleanTitle = title
               /\ m >= 7
               /\ SubSeq(cleanTitle, m - 6, m) = PreviewWord
    /\ pc = "cleanedTwice" => cleanTwice = cleanTitle

C8_Witness ==
    /\ pc = "cleanedTwice"
    /\ title = FooPreview
    /\ cleanTitle = FooPreview \o << " " >> \o PreviewWord
    /\ cleanTwice = cleanTitle

\* a single-quoted span of s with one or more characters between the quotes,
\* all of them letters, spaces, periods, colons or exclamation marks
IsNameSpan(s, i, j) ==
    /\ i + 1 < j
    /\ s[i] = Quote
    /\ s[j] = Quote
    /\ \A h \in (i + 1)..(j - 1) : InNameClass(s[h])

IsNameSpanQuote(s, i) ==
    \E j \in 1..Len(s) : IsNameSpan(s, i, j) \/ IsNameSpan(s, j, i)

\* the spans taken from left to right without overlap: a span whose opening
\* quote closes a span already taken is passed over
RECURSIVE IsTakenSpan(_, _, _)
IsTakenSpan(s, i, j) ==
    /\ IsNameSpan(s, i, j)
    /\ \A h \in 1..(i - 1) : ~IsTakenSpan(s, h, i)

IsTakenQuote(s, i) ==
    \E j \in 1..Len(s) : IsTakenSpan(s, i, j) \/ IsTakenSpan(s, j, i)

Receivers ==
    { DuePreview(changesToReport[k].path, previews) : k \in 1..Len(changesToReport) }
        \ { Undefined }

\* the place in changesToReport of the first change due to the preview t
FirstReceipt(t) ==
    CHOOSE k \in 1..Len(changesToReport) :
        /\ DuePreview(changesToReport[k].path, previews) = t
        /\ \A h \in 1..(k - 1) : DuePreview(changesToReport[h].path, previews) # t

\* the changes due to the preview t, in input order
ChangesDue(t) ==
    LET IsDue(c) == DuePreview(c.path, previews) = t
    IN  SelectSeq(changesToReport, IsDue)

\* C10: a returned entry has one previewChanges section for each preview title
\* that received a change and none besides, in the order of first receipt; a
\* section holds the preview's messages in input order under the title
\* "The [<cleaned title>](/graphql/overview/schema-previews#<anchor>) includes
\* these changes:".
C10_PreviewSections ==
    (pc = "returned" /\ result.kind = "entry") =>
        LET sections == result.entry.previewChanges
        IN  /\ Len(sections) = Cardinality(Receivers)
            /\ \A t \in Receivers :
                   LET place == 1 + Cardinality({ u \in Receivers :
                                                     FirstReceipt(u) < FirstReceipt(t) })
                       due == ChangesDue(t)
                       clean == cleanPreviewTitle(t)
                   IN  /\ sections[place].title =
                              << "The [" >> \o clean
                                  \o << "](/graphql/overview/schema-previews#" >>
                                  \o previewAnchor(clean)
                                  \o << ") includes these changes:" >>
                       /\ sections[place].changes =
                              [k \in 1..Len(due) |-> CleanMessage(due[k].message)]

C10_Witness ==
    /\ pc = "returned"
    /\ result.kind = "entry"
    /\ Len(previews) = 2
    /\ previews[1].title = UpdateRefsPreview
    /\ previews[2].title = FooPreview
    /\ Len(result.entry.previewChanges) = 2
    /\ result.entry.previewChanges[1].title =
           << "The [", "F","o","o","P","r","e","v","i","e","w"," ","p","r","e","v","i","e","w",
              "](/graphql/overview/schema-previews#",
              "f","o","o","p","r","e","v","i","e","w","-","p","r","e","v","i","e","w",
              ") includes these changes:" >>
    /\ result.entry.previewChanges[1].changes =
           << << Backtick, "b", "a", "r", Backtick, " ", "a", "d", "d", "e", "d" >> >>
    /\ result.entry.previewChanges[2].title =
           << "The [", "U","p","d","a","t","e"," ","r","e","f","s"," ","p","r","e","v","i","e","w",
              "](/graphql/overview/schema-previews#",
              "u","p","d","a","t","e","-","r","e","f","s","-","p","r","e","v","i","e","w",
              ") includes these changes:" >>

\* a date in yyyy-mm-dd form
IsDateString(d) ==
    /\ Len(d) = 10
    /\ d[5] = "-"
    /\ d[8] = "-"
    /\ \A i \in { 1, 2, 3, 4, 6, 7, 9, 10 } : d[i] \in Range(Digits)

\* C2: after a run of main the changelog is unwritten and unchanged when the
\* builder's result is null, and otherwise is the previous list with one new
\* element in front: the builder's entry stamped with a yyyy-mm-dd date.
\* The code writes an element holding only the date, whatever the result.
C2_MainPrependsStampedEntry ==
    pc = "settled" =>
        /\ result.kind = "null" => (~wrote /\ changelog = previousChangelog)
        /\ result.kind = "entry" =>
               /\ wrote
               /\ Len(changelog) = Len(previousChangelog) + 1
               /\ Tail(changelog) = previousChangelog
               /\ DOMAIN Head(changelog) =
                      { "schemaChanges", "previewChanges", "upcomingChanges", "date" }
               /\ Head(changelog).schemaChanges = result.entry.schemaChanges
               /\ Head(changelog).previewChanges = result.entry.previewChanges
               /\ Head(changelog).upcomingChanges = result.entry.upcomingChanges
               /\ IsDateString(Head(changelog).date)

====
